---- MODULE Spec2Model ----
(***************************************************************************)
(* The three command-line tools of src/yolo: clip_similarity.py (commands  *)
(* embed / similarity / compare), detect.py and ocr.py.  One behaviour is  *)
(* one process: the interpreter imports the module, runs __main__, prints  *)
(* to standard output and exits.  Library calls whose result the code      *)
(* cannot control (model load, inference, OCR passes) are nondeterministic *)
(* choices; everything the scripts themselves compute is modelled as       *)
(* written.                                                                *)
(***************************************************************************)
EXTENDS Integers, Sequences, FiniteSets, TLC

VARIABLES
    tool,           \* which script this process runs
    argv,           \* sys.argv[1:]
    fs,             \* the file system: path -> kind of file
    deps,           \* TRUE iff the script's third-party imports succeed
    pc,             \* position of the process
    stdout,         \* the JSON lines printed so far
    exitCode,       \* Running, or the exit status of the process
    traceback,      \* TRUE iff the process died of an uncaught exception
    called,         \* library / helper calls made so far
    cache,          \* _model_cache (with _preprocess_cache, _device_cache)
    loadAttempts,   \* number of load_clip_model calls
    loadSuccesses,  \* number of load_clip_model calls that returned a model
    getModelCalls,  \* number of get_model calls
    callsAtSuccess, \* value of getModelCalls when a load succeeded
    lastGet,        \* what the last get_model call returned
    refEmb,         \* compute_similarity / compare: the reference embedding
    frameEmb,       \* compute_similarity / compare: the frame embedding
    cosine,         \* the raw value of torch.cosine_similarity, in hundredths
    result,         \* the value the called function returned
    keyFound,       \* compare: the "embedding" key was found in the file
    sysStderr,      \* detect.py: what sys.stderr currently is
    texts,          \* ocr.py: read_text's list `texts`
    text1,          \* ocr.py: read_text's local `text1`
    text1Bound,     \* ocr.py: TRUE iff `text1` has been assigned
    passOut         \* ocr.py: what each OCR pass did, in order

vars == << tool, argv, fs, deps, pc, stdout, exitCode, traceback, called,
           cache, loadAttempts, loadSuccesses, getModelCalls, callsAtSuccess,
           lastGet, refEmb, frameEmb, cosine, result, keyFound, sysStderr,
           texts, text1, text1Bound, passOut >>

clipVars == << cache, loadAttempts, loadSuccesses, getModelCalls,
               callsAtSuccess, lastGet, refEmb, frameEmb, cosine, keyFound >>
ocrVars == << texts, text1, text1Bound, passOut >>

----------------------------------------------------------------------------
(* Bounds *)

\* get_model calls made by a library client in one process
MaxCalls == 14
\* longest raw string an OCR pass returns
MaxLen == 3
\* extent of the cosine grid, in hundredths
MaxCos == 100

----------------------------------------------------------------------------
(* Values *)

Running == -1

None == [tag |-> "None"]
Err(msg, arg) == [tag |-> "error", msg |-> msg, arg |-> arg]
Model(id) == [tag |-> "model", id |-> id]
Tensor == [tag |-> "tensor"]
IsError(v) == v.tag = "error"

Paths == {"p1", "p2"}
ImageKinds == {"image", "garbage"}
JsonKinds == {"object", "object_key", "array", "array_item",
              "string", "string_sub", "scalar"}
FileKinds == {"absent"} \cup ImageKinds \cup JsonKinds

exists(p) == fs[p] # "absent"

\* str.lower() on the characters and command words of the model
lower(w) ==
    CASE w = "A" -> "a"
      [] w = "C" -> "c"
      [] w = "D" -> "d"
      [] w = "O" -> "o"
      [] w = "S" -> "s"
      [] w = "Compare" -> "compare"
      [] w = "Dog" -> "dog"
      [] w = "EMBED" -> "embed"
      [] OTHER -> w

----------------------------------------------------------------------------
(* Process control shared by the three scripts *)

\* print the given lines, then sys.exit(code) or fall off the end of the script
Stop(lines, code) ==
    /\ stdout' = stdout \o lines
    /\ exitCode' = code
    /\ traceback' = FALSE
    /\ pc' = "done"

\* an exception nobody catches: traceback on stderr, exit status 1
Die ==
    /\ stdout' = stdout
    /\ exitCode' = 1
    /\ traceback' = TRUE
    /\ pc' = "done"

Goto(l) ==
    /\ pc' = l
    /\ UNCHANGED << stdout, exitCode, traceback >>

\* try: import ... except ImportError: print(...); sys.exit(1)
Import(t, msg) ==
    /\ tool = t
    /\ pc = "import"
    /\ IF deps THEN Goto("main") ELSE Stop(<< Err(msg, "") >>, 1)

----------------------------------------------------------------------------
(* clip_similarity.py *)

LoadClipModel(ok, id) ==
    IF ok THEN Model(id) ELSE Err("Failed to load CLIP model", "exception")

\* get_model without the `is None` test: every call loads again
GetModelReload(c, ok, id) ==
    LET r == LoadClipModel(ok, id) IN
    IF IsError(r)
    THEN [cache |-> c, ret |-> r, loads |-> 1, succ |-> 0]
    ELSE [cache |-> r, ret |-> r, loads |-> 1, succ |-> 1]

\* get_model with cache c; ok is the outcome of the load it may attempt and
\* id names the triple that load would return
GetModel(c, ok, id) ==
    IF c = None
    THEN LET r == LoadClipModel(ok, id) IN
         IF IsError(r)
         THEN [cache |-> c, ret |-> r, loads |-> 1, succ |-> 0]
         ELSE [cache |-> r, ret |-> r, loads |-> 1, succ |-> 1]
    ELSE [cache |-> c, ret |-> c, loads |-> 0, succ |-> 0]

\* the effect of one get_model call on the module globals and the counters
ApplyGet(g) ==
    /\ cache' = g.cache
    /\ lastGet' = g.ret
    /\ getModelCalls' = getModelCalls + 1
    /\ loadAttempts' = loadAttempts + g.loads
    /\ loadSuccesses' = loadSuccesses + g.succ
    /\ callsAtSuccess' = IF g.succ = 1 THEN getModelCalls + 1 ELSE callsAtSuccess

GetCalls(g) ==
    {"get_model"} \cup (IF g.loads = 1 THEN {"load_clip_model"} ELSE {})

\* embed_image(path): `model, preprocess, device = get_model()` unpacks the
\* returned value; the one-key error dict does not unpack into three names,
\* and the ValueError is caught by the function's own except clause
EmbedImage(c, path, loadOk, encodeOk, id) ==
    LET g == GetModel(c, loadOk, id) IN
    IF IsError(g.ret)
    THEN [g |-> g, ret |-> Err("Failed to embed image", "unpack"),
          called |-> {"embed_image"} \cup GetCalls(g)]
    ELSE IF fs[path] # "image"
    THEN [g |-> g, ret |-> Err("Failed to embed image", "open"),
          called |-> {"embed_image", "Image.open"} \cup GetCalls(g)]
    ELSE IF ~encodeOk
    THEN [g |-> g, ret |-> Err("Failed to embed image", "encode"),
          called |-> {"embed_image", "Image.open", "encode_image"} \cup GetCalls(g)]
    ELSE [g |-> g, ret |-> Tensor,
          called |-> {"embed_image", "Image.open", "encode_image"} \cup GetCalls(g)]

Max0(s) == IF 0 >= s THEN 0 ELSE s

\* compute_similarity's result for raw cosine s (hundredths)
SimilarityResult(s) ==
    LET similarity == Max0(s) IN
    [tag |-> "score",
     similarity |-> similarity,
     match |-> similarity >= 30,
     confidence |-> IF similarity >= 45 THEN "high"
                    ELSE IF similarity >= 35 THEN "medium"
                    ELSE IF similarity >= 30 THEN "low"
                    ELSE "none"]

\* compare_with_embedding with `>` for `>=` in the match test
CompareResultStrict(s) ==
    LET similarity == Max0(s) IN
    [tag |-> "score",
     similarity |-> similarity,
     match |-> similarity > 30,
     confidence |-> IF similarity >= 45 THEN "high"
                    ELSE IF similarity >= 35 THEN "medium"
                    ELSE IF similarity >= 30 THEN "low"
                    ELSE "none"]

\* compare_with_embedding's result for raw cosine s (hundredths)
CompareResult(s) ==
    LET similarity == Max0(s) IN
    [tag |-> "score",
     similarity |-> similarity,
     match |-> similarity >= 30,
     confidence |-> IF similarity >= 45 THEN "high"
                    ELSE IF similarity >= 35 THEN "medium"
                    ELSE IF similarity >= 30 THEN "low"
                    ELSE "none"]

CosineGrid == (0 - MaxCos) .. MaxCos

\* json.load(f) of the embedding file
JsonParses(kind) == kind \in JsonKinds
\* Python's `"embedding" in embedding_data`; a number, boolean or null raises
InRaises(kind) == kind = "scalar"
InHolds(kind) == kind \in {"object_key", "array_item", "string_sub"}
\* embedding_data["embedding"]; a list or a string raises
SubscriptRaises(kind) == kind \in {"array_item", "string_sub"}

ClipImport == 
    /\ Import("clip", "CLIP dependencies not installed")
    /\ UNCHANGED << tool, argv, fs, deps, called, result, sysStderr >>
    /\ UNCHANGED clipVars
    /\ UNCHANGED ocrVars

ClipMainEmbed ==
    IF Len(argv) < 2
    THEN Stop(<< Err("Usage: embed", "") >>, 1)
    ELSE IF ~exists(argv[2])
    THEN Stop(<< Err("Image file not found", argv[2]) >>, 1)
    ELSE Goto("embed_reference")

ClipMainSimilarity ==
    IF Len(argv) < 3
    THEN Stop(<< Err("Usage: similarity", "") >>, 1)
    ELSE IF ~exists(argv[2])
    THEN Stop(<< Err("Reference image not found", argv[2]) >>, 1)
    ELSE IF ~exists(argv[3])
    THEN Stop(<< Err("Frame image not found", argv[3]) >>, 1)
    ELSE Goto("sim_ref")

ClipMainCompare ==
    IF Len(argv) < 3
    THEN Stop(<< Err("Usage: compare", "") >>, 1) /\ keyFound' = keyFound
    ELSE IF ~exists(argv[2])
    THEN Stop(<< Err("Frame image not found", argv[2]) >>, 1) /\ keyFound' = keyFound
    ELSE IF ~exists(argv[3])
    THEN Stop(<< Err("Embedding file not found", argv[3]) >>, 1) /\ keyFound' = keyFound
    ELSE IF ~JsonParses(fs[argv[3]])
    THEN Die /\ keyFound' = keyFound
    ELSE IF InRaises(fs[argv[3]])
    THEN Die /\ keyFound' = keyFound
    ELSE IF ~InHolds(fs[argv[3]])
    THEN Stop(<< Err("Invalid embedding file format", "") >>, 1) /\ keyFound' = keyFound
    ELSE IF SubscriptRaises(fs[argv[3]])
    THEN Die /\ keyFound' = TRUE
    ELSE Goto("cmp_model") /\ keyFound' = TRUE

\* the __main__ block up to the call of the command's function
ClipMain ==
    /\ tool = "clip"
    /\ pc = "main"
    /\ IF Len(argv) < 1
       THEN Stop(<< Err("Usage", ""), Err("Commands", "") >>, 1) /\ keyFound' = keyFound
       ELSE LET command == lower(argv[1]) IN
            IF command = "embed" THEN ClipMainEmbed /\ keyFound' = keyFound
            ELSE IF command = "similarity" THEN ClipMainSimilarity /\ keyFound' = keyFound
            ELSE IF command = "compare" THEN ClipMainCompare
            ELSE Stop(<< Err("Unknown command", command) >>, 1) /\ keyFound' = keyFound
    /\ UNCHANGED << tool, argv, fs, deps, called, result, sysStderr >>
    /\ UNCHANGED << cache, loadAttempts, loadSuccesses, getModelCalls,
                    callsAtSuccess, lastGet, refEmb, frameEmb, cosine >>
    /\ UNCHANGED ocrVars

\* embed_reference(image_path)
EmbedReference ==
    /\ tool = "clip"
    /\ pc = "embed_reference"
    /\ \E loadOk \in BOOLEAN, encodeOk \in BOOLEAN :
         LET e == EmbedImage(cache, argv[2], loadOk, encodeOk, loadAttempts + 1) IN
         /\ ApplyGet(e.g)
         /\ called' = called \cup {"embed_reference"} \cup e.called
         /\ refEmb' = e.ret
         /\ result' = IF IsError(e.ret) THEN e.ret ELSE [tag |-> "embedding"]
    /\ Goto("print")
    /\ UNCHANGED << tool, argv, fs, deps, cosine, frameEmb, keyFound, sysStderr >>
    /\ UNCHANGED ocrVars

\* compute_similarity: ref_embedding = embed_image(reference_image_path)
SimilarityRef ==
    /\ tool = "clip"
    /\ pc = "sim_ref"
    /\ \E loadOk \in BOOLEAN, encodeOk \in BOOLEAN :
         LET e == EmbedImage(cache, argv[2], loadOk, encodeOk, loadAttempts + 1) IN
         /\ ApplyGet(e.g)
         /\ called' = called \cup {"compute_similarity"} \cup e.called
         /\ refEmb' = e.ret
    /\ Goto("sim_frame")
    /\ UNCHANGED << tool, argv, fs, deps, cosine, frameEmb, result, keyFound, sysStderr >>
    /\ UNCHANGED ocrVars

\* compute_similarity: frame_embedding = embed_image(frame_image_path)
SimilarityFrame ==
    /\ tool = "clip"
    /\ pc = "sim_frame"
    /\ \E loadOk \in BOOLEAN, encodeOk \in BOOLEAN :
         LET e == EmbedImage(cache, argv[3], loadOk, encodeOk, loadAttempts + 1) IN
         /\ ApplyGet(e.g)
         /\ called' = called \cup e.called
         /\ frameEmb' = e.ret
    /\ Goto("sim_score")
    /\ UNCHANGED << tool, argv, fs, deps, cosine, refEmb, result, keyFound, sysStderr >>
    /\ UNCHANGED ocrVars

\* compute_similarity: the error checks, the cosine and the result dict
SimilarityScore ==
    /\ tool = "clip"
    /\ pc = "sim_score"
    /\ IF IsError(refEmb) THEN result' = refEmb /\ cosine' = cosine
       ELSE IF IsError(frameEmb) THEN result' = frameEmb /\ cosine' = cosine
       ELSE \E s \in CosineGrid : cosine' = s /\ result' = SimilarityResult(s)
    /\ Goto("print")
    /\ UNCHANGED << tool, argv, fs, deps, called, keyFound, sysStderr >>
    /\ UNCHANGED << cache, loadAttempts, loadSuccesses, getModelCalls,
                    callsAtSuccess, lastGet, refEmb, frameEmb >>
    /\ UNCHANGED ocrVars

\* compare_with_embedding: get_model(), the unpacking and torch.tensor(list)
CompareGetModel ==
    /\ tool = "clip"
    /\ pc = "cmp_model"
    /\ \E loadOk \in BOOLEAN, tensorOk \in BOOLEAN :
         LET g == GetModel(cache, loadOk, loadAttempts + 1) IN
         /\ ApplyGet(g)
         /\ called' = called \cup {"compare_with_embedding"} \cup GetCalls(g)
         /\ IF IsError(g.ret)
            THEN /\ refEmb' = Err("Failed to compare with embedding", "unpack")
                 /\ result' = refEmb'
                 /\ Goto("print")
            ELSE IF ~tensorOk
            THEN /\ refEmb' = Err("Failed to compare with embedding", "tensor")
                 /\ result' = refEmb'
                 /\ Goto("print")
            ELSE /\ refEmb' = Tensor
                 /\ result' = result
                 /\ Goto("cmp_frame")
    /\ UNCHANGED << tool, argv, fs, deps, cosine, frameEmb, keyFound, sysStderr >>
    /\ UNCHANGED ocrVars

\* compare_with_embedding: frame_embedding = embed_image(frame_image_path)
CompareFrame ==
    /\ tool = "clip"
    /\ pc = "cmp_frame"
    /\ \E loadOk \in BOOLEAN, encodeOk \in BOOLEAN :
         LET e == EmbedImage(cache, argv[2], loadOk, encodeOk, loadAttempts + 1) IN
         /\ ApplyGet(e.g)
         /\ called' = called \cup e.called
         /\ frameEmb' = e.ret
    /\ Goto("cmp_score")
    /\ UNCHANGED << tool, argv, fs, deps, cosine, refEmb, result, keyFound, sysStderr >>
    /\ UNCHANGED ocrVars

\* compare_with_embedding: the error check, the cosine and the result dict
CompareScore ==
    /\ tool = "clip"
    /\ pc = "cmp_score"
    /\ IF IsError(frameEmb) THEN result' = frameEmb /\ cosine' = cosine
       ELSE \/ result' = Err("Failed to compare with embedding", "cosine") /\ cosine' = cosine
            \/ \E s \in CosineGrid : cosine' = s /\ result' = CompareResult(s)
    /\ Goto("print")
    /\ UNCHANGED << tool, argv, fs, deps, called, keyFound, sysStderr >>
    /\ UNCHANGED << cache, loadAttempts, loadSuccesses, getModelCalls,
                    callsAtSuccess, lastGet, refEmb, frameEmb >>
    /\ UNCHANGED ocrVars

\* print(json.dumps(result)) and the end of the script
ClipPrint ==
    /\ tool = "clip"
    /\ pc = "print"
    /\ Stop(<< result >>, 0)
    /\ UNCHANGED << tool, argv, fs, deps, called, result, sysStderr >>
    /\ UNCHANGED clipVars
    /\ UNCHANGED ocrVars

\* a library client of clip_similarity calls get_model once more
GetModelCall ==
    /\ tool = "cache"
    /\ getModelCalls < MaxCalls
    /\ \E loadOk \in BOOLEAN :
         LET g == GetModel(cache, loadOk, loadAttempts + 1) IN
         /\ ApplyGet(g)
         /\ called' = called \cup GetCalls(g)
    /\ UNCHANGED << tool, argv, fs, deps, pc, stdout, exitCode, traceback,
                    refEmb, frameEmb, cosine, result, keyFound, sysStderr >>
    /\ UNCHANGED ocrVars

----------------------------------------------------------------------------
(* detect.py *)

ConfWords == {"0.5", "abc"}
\* float(w) returns; otherwise it raises ValueError
IsFloat(w) == w = "0.5"

ClassNames == {"person", "dog", "Dog"}

DetectImport ==
    /\ Import("detect", "ultralytics not installed")
    /\ UNCHANGED << tool, argv, fs, deps, called, result, sysStderr >>
    /\ UNCHANGED clipVars
    /\ UNCHANGED ocrVars

\* the __main__ block up to the call of detect_objects
DetectMain ==
    /\ tool = "detect"
    /\ pc = "main"
    /\ IF Len(argv) < 1
       THEN Stop(<< Err("Usage", "") >>, 1)
       ELSE IF Len(argv) > 1 /\ ~IsFloat(argv[2])
       THEN Die
       ELSE IF ~exists(argv[1])
       THEN Stop(<< Err("Image file not found", argv[1]) >>, 1)
       ELSE Goto("detect_enter")
    /\ UNCHANGED << tool, argv, fs, deps, called, result, sysStderr >>
    /\ UNCHANGED clipVars
    /\ UNCHANGED ocrVars

\* detect_objects: sys.stderr = SuppressOutput()
DetectEnter ==
    /\ tool = "detect"
    /\ pc = "detect_enter"
    /\ sysStderr' = "sink"
    /\ called' = called \cup {"detect_objects"}
    /\ Goto("detect_run")
    /\ UNCHANGED << tool, argv, fs, deps, result >>
    /\ UNCHANGED clipVars
    /\ UNCHANGED ocrVars

\* detect_objects: YOLO('yolov8n.pt'), model(image_path, ...) and, when both
\* return, sys.stderr = _stderr_backup; an exception goes to the except clause
DetectRun ==
    /\ tool = "detect"
    /\ pc = "detect_run"
    /\ \E loadOk \in BOOLEAN, inferOk \in BOOLEAN :
         IF ~loadOk
         THEN /\ called' = called \cup {"YOLO"}
              /\ result' = Err("exception", "YOLO")
              /\ sysStderr' = sysStderr
              /\ Goto("detect_return")
         ELSE IF fs[argv[1]] # "image" \/ ~inferOk
         THEN /\ called' = called \cup {"YOLO", "inference"}
              /\ result' = Err("exception", "inference")
              /\ sysStderr' = sysStderr
              /\ Goto("detect_return")
         ELSE /\ called' = called \cup {"YOLO", "inference"}
              /\ result' = result
              /\ sysStderr' = "backup"
              /\ Goto("detect_extract")
    /\ UNCHANGED << tool, argv, fs, deps >>
    /\ UNCHANGED clipVars
    /\ UNCHANGED ocrVars

\* detect_objects: the set of lowercased class names of the boxes
DetectExtract ==
    /\ tool = "detect"
    /\ pc = "detect_extract"
    /\ \E boxes \in SUBSET ClassNames :
         result' = [tag |-> "list", objects |-> {lower(n) : n \in boxes}]
    /\ Goto("detect_return")
    /\ UNCHANGED << tool, argv, fs, deps, called, sysStderr >>
    /\ UNCHANGED clipVars
    /\ UNCHANGED ocrVars

\* the __main__ block after detect_objects returned
DetectPrint ==
    /\ tool = "detect"
    /\ pc = "detect_return"
    /\ IF IsError(result)
       THEN Stop(<< result >>, 1)
       ELSE Stop(<< [tag |-> "objects", objects |-> result.objects] >>, 0)
    /\ UNCHANGED << tool, argv, fs, deps, called, result, sysStderr >>
    /\ UNCHANGED clipVars
    /\ UNCHANGED ocrVars

----------------------------------------------------------------------------
(* ocr.py *)

\* a string is a sequence of characters
Alphabet == {"a", "A", " "}
Strings == UNION { [1..n -> Alphabet] : n \in 0..MaxLen }

IsSpace(c) == c = " "

\* str.strip()
Strip(s) ==
    LET idx == { i \in 1..Len(s) : ~IsSpace(s[i]) } IN
    IF idx = {} THEN << >>
    ELSE LET lo == CHOOSE i \in idx : \A j \in idx : i <= j
             hi == CHOOSE i \in idx : \A j \in idx : i >= j
         IN SubSeq(s, lo, hi)

\* ' '.join(list)
RECURSIVE Join(_)
Join(list) ==
    IF list = << >> THEN << >>
    ELSE IF Len(list) = 1 THEN list[1]
    ELSE list[1] \o << " " >> \o Join(Tail(list))

\* str.split(): the maximal runs of non-whitespace characters (the space
\* stands for every whitespace character)
RECURSIVE SplitFrom(_, _, _)
SplitFrom(s, word, words) ==
    IF s = << >>
    THEN IF word = << >> THEN words ELSE Append(words, word)
    ELSE IF IsSpace(Head(s))
    THEN SplitFrom(Tail(s), << >>, IF word = << >> THEN words ELSE Append(words, word))
    ELSE SplitFrom(Tail(s), Append(word, Head(s)), words)

Split(s) == SplitFrom(s, << >>, << >>)

\* str.lower()
LowerStr(s) == [i \in 1..Len(s) |-> lower(s[i])]

\* the loop without .lower(): words are compared as spelled
RECURSIVE UniqueWordsCased(_, _, _)
UniqueWordsCased(words, seen, unique_words) ==
    IF words = << >> THEN unique_words
    ELSE LET word == Head(words)
         IN IF word \notin seen
            THEN UniqueWordsCased(Tail(words), seen \cup {word},
                                  Append(unique_words, word))
            ELSE UniqueWordsCased(Tail(words), seen, unique_words)

\* the loop over `words` with the set `seen` and the list `unique_words`
RECURSIVE UniqueWords(_, _, _)
UniqueWords(words, seen, unique_words) ==
    IF words = << >> THEN unique_words
    ELSE LET word == Head(words)
             word_lower == LowerStr(word)
         IN IF word_lower \notin seen
            THEN UniqueWords(Tail(words), seen \cup {word_lower},
                             Append(unique_words, word))
            ELSE UniqueWords(Tail(words), seen, unique_words)

\* read_text from `if texts:` to the return
Combine(list) ==
    IF list # << >>
    THEN LET combined_text == Join(list)
             words == Split(combined_text)
         IN Join(UniqueWords(words, {}, << >>))
    ELSE << >>

Items(list) == { list[i] : i \in 1..Len(list) }

OcrImport ==
    /\ Import("ocr", "pytesseract not installed")
    /\ UNCHANGED << tool, argv, fs, deps, called, result, sysStderr >>
    /\ UNCHANGED clipVars
    /\ UNCHANGED ocrVars

\* the __main__ block up to the call of read_text
OcrMain ==
    /\ tool = "ocr"
    /\ pc = "main"
    /\ IF Len(argv) < 1
       THEN Stop(<< Err("Usage", "") >>, 1)
       ELSE IF ~exists(argv[1])
       THEN Stop(<< Err("Image file not found", argv[1]) >>, 1)
       ELSE Goto("read_text")
    /\ UNCHANGED << tool, argv, fs, deps, called, result, sysStderr >>
    /\ UNCHANGED clipVars
    /\ UNCHANGED ocrVars

\* the message of an exception that reaches read_text's outer except clause
ReadTextError(msg) ==
    IF msg \in {"tesseract", "not found"}
    THEN Err("tesseract is not installed", "")
    ELSE Err(msg, "")

\* read_text: the tesseract version check and Image.open
OcrOpen ==
    /\ tool = "ocr"
    /\ pc = "read_text"
    /\ \E tessOk \in BOOLEAN :
         IF ~tessOk
         THEN /\ called' = called \cup {"read_text", "get_tesseract_version"}
              /\ result' = Err("tesseract is not installed", "")
              /\ Goto("ocr_return")
         ELSE IF fs[argv[1]] # "image"
         THEN /\ called' = called \cup {"read_text", "get_tesseract_version", "Image.open"}
              /\ result' = ReadTextError("cannot identify image file")
              /\ Goto("ocr_return")
         ELSE /\ called' = called \cup {"read_text", "get_tesseract_version", "Image.open"}
              /\ result' = result
              /\ Goto("pass1")
    /\ UNCHANGED << tool, argv, fs, deps, sysStderr >>
    /\ UNCHANGED clipVars
    /\ UNCHANGED ocrVars

Raised == [raised |-> TRUE, text |-> << >>]
Returned(raw) == [raised |-> FALSE, text |-> Strip(raw)]
PassOutcomes == {Raised} \cup { Returned(raw) : raw \in Strings }

\* read_text: the psm 6 pass
OcrPass1 ==
    /\ tool = "ocr"
    /\ pc = "pass1"
    /\ \E o \in PassOutcomes :
         /\ passOut' = Append(passOut, o)
         /\ IF o.raised
            THEN UNCHANGED << text1, text1Bound, texts >>
            ELSE /\ text1' = o.text
                 /\ text1Bound' = TRUE
                 /\ texts' = IF o.text # << >> THEN Append(texts, o.text) ELSE texts
    /\ called' = called \cup {"image_to_string"}
    /\ Goto("pass2")
    /\ UNCHANGED << tool, argv, fs, deps, result, sysStderr >>
    /\ UNCHANGED clipVars

\* read_text: the psm 11 pass; reading `text1` when the first pass raised is
\* an UnboundLocalError, swallowed by the bare except
OcrPass2 ==
    /\ tool = "ocr"
    /\ pc = "pass2"
    /\ \E o \in PassOutcomes :
         /\ passOut' = Append(passOut, o)
         /\ IF o.raised THEN texts' = texts
            ELSE IF o.text = << >> THEN texts' = texts
            ELSE IF ~text1Bound THEN texts' = texts
            ELSE IF o.text # text1 THEN texts' = Append(texts, o.text)
            ELSE texts' = texts
    /\ Goto("pass3")
    /\ UNCHANGED << tool, argv, fs, deps, called, result, sysStderr, text1, text1Bound >>
    /\ UNCHANGED clipVars

\* read_text: the default pass
OcrPass3 ==
    /\ tool = "ocr"
    /\ pc = "pass3"
    /\ \E o \in PassOutcomes :
         /\ passOut' = Append(passOut, o)
         /\ IF o.raised THEN texts' = texts
            ELSE IF o.text # << >> /\ o.text \notin Items(texts)
            THEN texts' = Append(texts, o.text)
            ELSE texts' = texts
    /\ Goto("combine")
    /\ UNCHANGED << tool, argv, fs, deps, called, result, sysStderr, text1, text1Bound >>
    /\ UNCHANGED clipVars

\* read_text: joining, splitting and removing duplicate words
OcrCombine ==
    /\ tool = "ocr"
    /\ pc = "combine"
    /\ result' = [tag |-> "str", text |-> Combine(texts)]
    /\ Goto("ocr_return")
    /\ UNCHANGED << tool, argv, fs, deps, called, sysStderr >>
    /\ UNCHANGED clipVars
    /\ UNCHANGED ocrVars

\* the __main__ block after read_text returned
OcrPrint ==
    /\ tool = "ocr"
    /\ pc = "ocr_return"
    /\ IF IsError(result)
       THEN Stop(<< result >>, 1)
       ELSE Stop(<< [tag |-> "text", text |-> result.text] >>, 0)
    /\ UNCHANGED << tool, argv, fs, deps, called, result, sysStderr >>
    /\ UNCHANGED clipVars
    /\ UNCHANGED ocrVars

----------------------------------------------------------------------------
(* Specifications *)

CommandWords == {"embed", "similarity", "compare", "Compare", "bogus"}

ClipArgs ==
    {<< >>} \cup { << c >> : c \in CommandWords }
            \cup { << c, p >> : c \in CommandWords, p \in Paths }
            \cup { << c, p, q >> : c \in CommandWords, p \in Paths, q \in Paths }

DetectArgs ==
    {<< >>} \cup { << p >> : p \in Paths }
            \cup { << p, c >> : p \in Paths, c \in ConfWords }

OcrArgs == {<< >>} \cup { << p >> : p \in Paths }

\* the state of a freshly started interpreter
InitProcess ==
    /\ stdout = << >>
    /\ exitCode = Running
    /\ traceback = FALSE
    /\ called = {}
    /\ cache = None
    /\ loadAttempts = 0
    /\ loadSuccesses = 0
    /\ getModelCalls = 0
    /\ callsAtSuccess = 0
    /\ lastGet = None
    /\ refEmb = None
    /\ frameEmb = None
    /\ cosine = 0
    /\ result = None
    /\ keyFound = FALSE
    /\ sysStderr = "backup"
    /\ texts = << >>
    /\ text1 = << >>
    /\ text1Bound = FALSE
    /\ passOut = << >>

InitClip ==
    /\ tool = "clip"
    /\ pc = "import"
    /\ deps \in BOOLEAN
    /\ argv \in ClipArgs
    /\ fs \in [Paths -> FileKinds]
    /\ InitProcess

\* clip_similarity imported by a client that calls get_model itself
InitCache ==
    /\ tool = "cache"
    /\ pc = "lib"
    /\ deps = TRUE
    /\ argv = << >>
    /\ fs = [p \in Paths |-> "absent"]
    /\ InitProcess

InitDetect ==
    /\ tool = "detect"
    /\ pc = "import"
    /\ deps \in BOOLEAN
    /\ argv \in DetectArgs
    /\ fs \in { f \in [Paths -> {"absent"} \cup ImageKinds] : f["p2"] = "absent" }
    /\ InitProcess

InitOcr ==
    /\ tool = "ocr"
    /\ pc = "import"
    /\ deps \in BOOLEAN
    /\ argv \in OcrArgs
    /\ fs \in { f \in [Paths -> {"absent"} \cup ImageKinds] : f["p2"] = "absent" }
    /\ InitProcess

NextClip ==
    \/ ClipImport
    \/ ClipMain
    \/ EmbedReference
    \/ SimilarityRef
    \/ SimilarityFrame
    \/ SimilarityScore
    \/ CompareGetModel
    \/ CompareFrame
    \/ CompareScore
    \/ ClipPrint
    \/ GetModelCall

NextDetect ==
    \/ DetectImport
    \/ DetectMain
    \/ DetectEnter
    \/ DetectRun
    \/ DetectExtract
    \/ DetectPrint

NextOcr ==
    \/ OcrImport
    \/ OcrMain
    \/ OcrOpen
    \/ OcrPass1
    \/ OcrPass2
    \/ OcrPass3
    \/ OcrCombine
    \/ OcrPrint

Init == InitClip \/ InitCache \/ InitDetect \/ InitOcr
Next == NextClip \/ NextDetect \/ NextOcr

Spec == Init /\ [][Next]_vars
SpecClip == (InitClip \/ InitCache) /\ [][NextClip]_vars
SpecDetect == InitDetect /\ [][NextDetect]_vars
SpecOcr == InitOcr /\ [][NextOcr]_vars

----------------------------------------------------------------------------
(* Properties *)

Command == IF Len(argv) >= 1 THEN lower(argv[1]) ELSE ""
Finished == pc = "done"
PrintedError == \E i \in 1..Len(stdout) : stdout[i].tag = "error"

\* C1: a finished process whose standard output contains a JSON object with
\* key "error" has a nonzero exit status
ErrorImpliesNonzeroExit ==
    (Finished /\ PrintedError) => exitCode # 0

\* C2: a finished process of any of the three tools has written exactly one
\* line to standard output
ExactlyOneLine ==
    (Finished /\ tool \in {"clip", "detect", "ocr"}) => Len(stdout) = 1

\* the raw cosine clamped at zero, as the claim states it
Clamped == IF cosine < 0 THEN 0 ELSE cosine

\* C3: the result dict of compute_similarity and of compare_with_embedding has
\* similarity = max(0, s), match = (similarity >= 0.30) and the confidence of
\* the band the similarity lies in; match holds exactly when the confidence
\* is not "none", and the two functions give the same result for the same s
ScoreBuckets ==
    result.tag = "score" =>
        /\ result.similarity = Clamped
        /\ result.match = (Clamped >= 30)
        /\ (result.confidence = "high") = (Clamped >= 45)
        /\ (result.confidence = "medium") = (Clamped >= 35 /\ Clamped < 45)
        /\ (result.confidence = "low") = (Clamped >= 30 /\ Clamped < 35)
        /\ (result.confidence = "none") = (Clamped < 30)
        /\ result.match = (result.confidence # "none")
        /\ SimilarityResult(cosine) = CompareResult(cosine)

\* C3 witness: compare has scored a frame exactly at the match threshold
ScoreAtThreshold ==
    /\ Finished
    /\ Command = "compare"
    /\ result.tag = "score"
    /\ cosine = 30
    /\ result.confidence = "low"

\* C4: load_clip_model has succeeded at most once; while the cache is empty
\* every get_model call so far made a load attempt and got the error; once it
\* is filled the attempts stopped at the successful call and the last call
\* returned the cached triple
LoadOnce ==
    /\ loadSuccesses <= 1
    /\ cache = None =>
          /\ loadSuccesses = 0
          /\ loadAttempts = getModelCalls
          /\ getModelCalls > 0 => IsError(lastGet)
    /\ cache # None =>
          /\ loadSuccesses = 1
          /\ loadAttempts = callsAtSuccess
          /\ lastGet = cache

\* C4 witness: two failed loads, a successful one, then calls served from
\* the cache
ReusedAfterRetries ==
    /\ cache # None
    /\ loadAttempts = 3
    /\ getModelCalls >= 5

\* the file paths the invocation takes as input, in argument order
InputPaths ==
    IF tool = "clip"
    THEN IF Command = "embed" /\ Len(argv) >= 2 THEN << argv[2] >>
         ELSE IF Command \in {"similarity", "compare"} /\ Len(argv) >= 3
         THEN << argv[2], argv[3] >>
         ELSE << >>
    ELSE IF tool \in {"detect", "ocr"} /\ Len(argv) >= 1 THEN << argv[1] >>
    ELSE << >>

MissingInputs == { i \in 1..Len(InputPaths) : ~exists(InputPaths[i]) }
FirstMissing ==
    InputPaths[CHOOSE i \in MissingInputs : \A j \in MissingInputs : i <= j]

\* C5: when an input path does not exist (the imports having succeeded and the
\* command's paths all being given) the process makes no model, inference or
\* OCR call, and ends having printed one JSON error line that names the first
\* missing path, with exit status 1
MissingFileReported ==
    (deps /\ MissingInputs # {}) =>
        /\ called = {}
        /\ Finished =>
              /\ Len(stdout) = 1
              /\ stdout[1].tag = "error"
              /\ stdout[1].arg = FirstMissing
              /\ exitCode = 1

\* only a JSON object has keys
HasEmbeddingKey(kind) == kind = "object_key"

KeylessEmbeddingFile ==
    /\ tool = "clip"
    /\ deps
    /\ Command = "compare"
    /\ Len(argv) >= 3
    /\ exists(argv[2])
    /\ JsonParses(fs[argv[3]])
    /\ ~HasEmbeddingKey(fs[argv[3]])

\* C6: compare on an existing frame and an embedding file that is JSON without
\* an "embedding" key prints the format error, exits 1 and never calls
\* compare_with_embedding, get_model or embed_image; compare_with_embedding is
\* called only after the key was found
FormatErrorBeforeInference ==
    /\ KeylessEmbeddingFile =>
          /\ called \cap {"compare_with_embedding", "get_model", "embed_image"} = {}
          /\ Finished =>
                /\ stdout = << Err("Invalid embedding file format", "") >>
                /\ exitCode = 1
    /\ "compare_with_embedding" \in called => keyFound

\* the passes of passOut that returned a non-empty string not equal to one
\* collected earlier, in order
RECURSIVE Collected(_, _)
Collected(outs, acc) ==
    IF outs = << >> THEN acc
    ELSE LET o == Head(outs) IN
         IF ~o.raised /\ o.text # << >> /\ o.text \notin Items(acc)
         THEN Collected(Tail(outs), Append(acc, o.text))
         ELSE Collected(Tail(outs), acc)

\* C7: after the three passes `texts` holds, in pass order, exactly the outputs
\* that were non-empty and not equal to an output collected earlier
PassesCollected ==
    (tool = "ocr" /\ Len(passOut) = 3) => texts = Collected(passOut, << >>)

\* the whitespace-separated tokens of s, from the positions where they start
TokenStarts(s) ==
    { i \in 1..Len(s) : ~IsSpace(s[i]) /\ (i = 1 \/ IsSpace(s[i - 1])) }
TokenEnd(s, i) ==
    CHOOSE j \in i..Len(s) :
        /\ \A k \in i..j : ~IsSpace(s[k])
        /\ (j = Len(s) \/ IsSpace(s[j + 1]))
\* the r-th smallest element of the set of numbers S
Nth(S, r) == CHOOSE i \in S : Cardinality({ j \in S : j <= i }) = r
Tokens(s) ==
    LET starts == TokenStarts(s) IN
    [r \in 1..Cardinality(starts) |->
        SubSeq(s, Nth(starts, r), TokenEnd(s, Nth(starts, r)))]

SameLetter(c, d) ==
    \/ c = d
    \/ {c, d} \in {{"a", "A"}, {"c", "C"}, {"d", "D"}, {"o", "O"}, {"s", "S"}}
EqualIgnoringCase(u, v) ==
    /\ Len(u) = Len(v)
    /\ \A k \in 1..Len(u) : SameLetter(u[k], v[k])

\* the tokens no earlier token equals ignoring case, in order
FirstOccurrences(toks) ==
    LET kept == { i \in 1..Len(toks) :
                    \A j \in 1..(i - 1) : ~EqualIgnoringCase(toks[j], toks[i]) }
    IN [r \in 1..Cardinality(kept) |-> toks[Nth(kept, r)]]

SingleSpaced(s) ==
    \A i \in 1..Len(s) :
        IsSpace(s[i]) => (i > 1 /\ i < Len(s) /\ ~IsSpace(s[i + 1]))

AcmeSoda == << "A", "c", "m", "e", " ", "S", "o", "d", "a", " ", "1", "2", "o", "z" >>
SodaCan == << "S", "O", "D", "A", " ", "c", "a", "n" >>
AcmeSodaCan == << "A", "c", "m", "e", " ", "S", "o", "d", "a", " ",
                  "1", "2", "o", "z", " ", "c", "a", "n" >>

LoadFailureReturned ==
    (tool = "clip" /\ IsError(lastGet)) =>
        /\ pc = "sim_frame" => refEmb = lastGet
        /\ pc = "sim_score" => frameEmb = lastGet
        /\ (pc = "print" /\ Command = "embed") =>
              (refEmb = lastGet /\ result = lastGet /\ "Image.open" \notin called)
        /\ (pc = "print" /\ Command = "compare") => result = lastGet

\* C10: once detect_objects has returned, sys.stderr is the stream saved in
\* _stderr_backup; it is the sink only during the load and inference step
StderrRestored ==
    /\ pc \in {"detect_return", "done"} => sysStderr = "backup"
    /\ sysStderr = "sink" => pc = "detect_run"

====
